---------------------------- MODULE Spec2Model ----------------------------
(***************************************************************************)
(* BARK (Binary Authority Regulatory Kernel) LSM: the entropy governor     *)
(* (bark_entropy.c), the signature verifier and its per-subject cache      *)
(* (bark_signature.c), the statistics counters and LSM hooks (bark_main.c) *)
(* and the authorization operations and sysfs stores (bark_hooks.c).       *)
(*                                                                         *)
(* Every entry point runs on a host thread.  A thread takes one step per   *)
(* access to shared memory (an atomic operation on current_entropy or on a *)
(* statistics counter, a load of bark_enforce or bark_max_entropy, a load  *)
(* or store of a security blob); the purely local code between two such    *)
(* accesses is part of the step that precedes it.                          *)
(***************************************************************************)
EXTENDS Integers, FiniteSets, Sequences, TLC

\* ------------------------------------------------------------- bounds
\* Largest value the model lets current_entropy reach under Spec.
MaxEntropy == 2
\* Largest value the model lets current_entropy reach under SpecEntropy.
MaxRunEntropy == 92
\* Largest delta passed to bark_update_entropy by a direct caller.
MaxDelta == 2
\* Largest ceiling written through entropy_ceiling_store.
MaxCeiling == 0
\* Gated events start only while the statistics counters sum to less than this.
MaxStat == 1
\* Width of the modelled unsigned long (the kernel's is 64).
WordBits == 16

\* ------------------------------------------------- program constants
BARK_DEFAULT_MAX_ENTROPY == 1000
BARK_DEFAULT_ENFORCE == 1

BARK_SIG_UNKNOWN == 0
BARK_SIG_VALID == 1
BARK_SIG_INVALID == 2
BARK_SIG_MISSING == 3

\* errno values used by the return codes
EPERM == 1
ENOENT == 2
EACCES == 13
EINVAL == 22

BARK_ERR_ENTROPY_EXCEEDED == -EPERM
BARK_ERR_SIGNATURE_INVALID == -EACCES
BARK_ERR_NOT_AUTHORIZED == -EACCES

NULL == "NULL"
REASON_ENTROPY == "Entropy ceiling exceeded"
REASON_SIGNATURE == "Signature verification failed"

\* ------------------------------------------------------ the population
Threads == {"cpu0", "cpu1"}
Tasks == {"task1"}
Files == {"file1"}

ULongMod == 2 ^ WordBits

\* (unsigned long) of a long
ToULong(x) == x % ULongMod

VARIABLES
    current_entropy,   \* static atomic_long_t current_entropy (signed long)
    bark_enforce,      \* int bark_enforce
    bark_max_entropy,  \* unsigned long bark_max_entropy
    bark_statistics,   \* struct bark_stats: four atomic64_t
    tsec,              \* task -> sig_state of its struct bark_task_security
    fsec,              \* file -> sig_state of its struct bark_file_security
    exe,               \* task -> what get_task_exe_file(task) yields
    blobs,             \* whether bark_task()/bark_file() yield the blob or NULL
    th,                \* thread -> its position, locals and the event's record
    resolved,          \* file -> the state the verification placeholder last
                       \* produced for it (BARK_SIG_UNKNOWN: it never ran)
    nproc              \* bark_entropy_event(0) calls completed, while they are
                       \* the only writers of current_entropy since it was 0;
                       \* -1 once another writer ran, or when not followed

vars == <<current_entropy, bark_enforce, bark_max_entropy, bark_statistics,
          tsec, fsec, exe, blobs, th, resolved, nproc>>

globals == <<current_entropy, bark_enforce, bark_max_entropy, bark_statistics,
             tsec, fsec, exe, blobs, resolved>>

StatNames == {"authorizations", "denials", "entropy_blocks", "signature_failures"}

NoIncs == [n \in StatNames |-> 0]

\* struct bark_auth_result result = {0} / memset(result, 0, sizeof(*result))
ZeroResult ==
    [sig_state |-> BARK_SIG_UNKNOWN, entropy_level |-> 0,
     authorized |-> FALSE, reason |-> NULL]

\* What one event did and saw, kept beside the thread's locals:
\*   enf      bark_enforce when the entry point was entered
\*   known_f  resolved[file] when bark_verify_signature was entered (-1: it
\*            was not entered, or file is NULL)
\*   incs     the increments this event made to each statistics counter
\*   vcalls   times this event ran the verification placeholder
\*   vtask    times this event entered bark_verify_task_signature
\*   over     1 when bark_check_entropy_ceiling found level > ceiling, else 0
\*   seen_t   the task's cached sig_state read by bark_verify_task_signature
\*   seen_f   the file's cached sig_state read by bark_verify_signature
\*            (-1: none read, or the blob is NULL)
NoEvent ==
    [enf |-> -1, incs |-> NoIncs, vcalls |-> 0, vtask |-> 0,
     over |-> 0, seen_t |-> -1, seen_f |-> -1, known_f |-> -1]

\* A thread entering entry point o with its arguments: a task, a file and an
\* integer (delta, event_type or the value stored through sysfs).  The locals
\* level, state, ret and result start as the entry point leaves them.
Fresh(o, task, file, arg) ==
    [pc |-> "idle", op |-> o, task |-> task, file |-> file, arg |-> arg,
     level |-> 0, state |-> -1, ret |-> 0, result |-> ZeroResult,
     ev |-> [NoEvent EXCEPT !.enf = bark_enforce]]

Idle(t) == th[t].pc = "idle"

\* The thread's entry point returns code: the thread holds the finished
\* event's record until its caller takes it (Return).
Done(r, code) == [r EXCEPT !.pc = "ret", !.ret = code]

Returned(t) == th[t].pc = "ret"

\* A thread that holds no event: before its first call, and after a void
\* entry point of the entropy governor has returned.
NoCall ==
    [pc |-> "idle", op |-> "none", task |-> NULL, file |-> NULL, arg |-> 0,
     level |-> 0, state |-> -1, ret |-> 0, result |-> ZeroResult,
     ev |-> NoEvent]

StatTotal ==
    bark_statistics.authorizations + bark_statistics.denials
    + bark_statistics.entropy_blocks + bark_statistics.signature_failures

\* An increment done as a plain load and store: when every thread is about
\* to increment authorizations, each stores the value all of them loaded, and
\* the first store is overwritten.
plain_inc(n) ==
    IF \A t \in Threads : th[t].pc = "ta_allow"
    THEN bark_statistics
    ELSE [bark_statistics EXCEPT ![n] = @ + 1]

\* atomic64_inc(&bark_statistics.<n>)
atomic64_inc(n) == [bark_statistics EXCEPT ![n] = @ + 1]

Counted(r, n) == [r EXCEPT !.ev.incs[n] = @ + 1]

Init ==
    /\ current_entropy = 0
    /\ bark_enforce = BARK_DEFAULT_ENFORCE
    /\ bark_max_entropy = BARK_DEFAULT_MAX_ENTROPY
    /\ bark_statistics = NoIncs
    /\ tsec = [k \in Tasks |-> BARK_SIG_UNKNOWN]
    /\ fsec = [f \in Files |-> BARK_SIG_UNKNOWN]
    /\ exe \in [Tasks -> Files \cup {NULL}]
    /\ blobs \in BOOLEAN
    /\ th = [t \in Threads |-> NoCall]
    /\ resolved = [f \in Files |-> BARK_SIG_UNKNOWN]
    /\ nproc = -1

\* ---------------------------------------------------- bark_entropy.c

\* A classification that weighs process creation like network I/O.
EventDeltaHalved(event_type) ==
    CASE event_type = 0 -> 5
      [] event_type = 1 -> 5
      [] event_type = 2 -> 3
      [] event_type = 3 -> 1
      [] OTHER -> 1

\* switch (event_type) of bark_entropy_event
EventDelta(event_type) ==
    CASE event_type = 0 -> 10
      [] event_type = 1 -> 5
      [] event_type = 2 -> 3
      [] event_type = 3 -> 1
      [] OTHER -> 1

EventTypes == 0 .. 4

\* A decay test that also passes at zero.
NeedsDecayAtZero(v) == v >= 0

\* if (atomic_long_read(&current_entropy) > 0)
NeedsDecay(v) == v > 0

\* if (level > bark_max_entropy)
CeilingExceeded(level, ceiling) == level > ceiling

\* The bookkeeping of a finished writer of current_entropy.
CountEvent(r) ==
    nproc' = IF nproc >= 0 /\ r.op = "bark_entropy_event" /\ r.arg = 0
             THEN nproc + 1 ELSE nproc

\* atomic_long_add(delta, &current_entropy), the first step of
\* bark_update_entropy, entered directly (o = "bark_update_entropy") or from
\* bark_entropy_event (arg = event_type).
UpdateAdd(t, o, arg, delta) ==
    /\ Idle(t)
    /\ current_entropy' = current_entropy + delta
    /\ th' = [th EXCEPT ![t] = [Fresh(o, NULL, NULL, arg) EXCEPT !.pc = "ue_read"]]
    /\ nproc' = IF o = "bark_entropy_event" /\ arg = 0 THEN nproc ELSE -1
    /\ UNCHANGED <<bark_enforce, bark_max_entropy, bark_statistics, tsec, fsec,
                   exe, blobs, resolved>>

\* void bark_update_entropy(unsigned long delta); delta is dead after the add,
\* so the thread does not keep it.
bark_update_entropy(t, delta) == UpdateAdd(t, "bark_update_entropy", 0, delta)

\* void bark_entropy_event(int event_type)
bark_entropy_event(t, event_type) ==
    UpdateAdd(t, "bark_entropy_event", event_type, EventDelta(event_type))

\* atomic_long_read(&current_entropy) > 0 in bark_update_entropy
UpdateRead(t) ==
    /\ th[t].pc = "ue_read"
    /\ IF NeedsDecay(current_entropy)
       THEN /\ th' = [th EXCEPT ![t].pc = "ue_dec"]
            /\ UNCHANGED nproc
       ELSE /\ th' = [th EXCEPT ![t] = NoCall]
            /\ CountEvent(th[t])
    /\ UNCHANGED globals

\* atomic_long_dec(&current_entropy) in bark_update_entropy
UpdateDec(t) ==
    /\ th[t].pc = "ue_dec"
    /\ current_entropy' = current_entropy - 1
    /\ th' = [th EXCEPT ![t] = NoCall]
    /\ CountEvent(th[t])
    /\ UNCHANGED <<bark_enforce, bark_max_entropy, bark_statistics, tsec, fsec,
                   exe, blobs, resolved>>

\* void bark_reset_entropy(void)
bark_reset_entropy(t) ==
    /\ Idle(t)
    /\ current_entropy' = 0
    /\ th' = [th EXCEPT ![t] = NoCall]
    /\ nproc' = -1
    /\ UNCHANGED <<bark_enforce, bark_max_entropy, bark_statistics, tsec, fsec,
                   exe, blobs, resolved>>

\* unsigned long bark_get_entropy_level(void), called on its own
bark_get_entropy_level(t) ==
    /\ Idle(t)
    /\ th' = [th EXCEPT ![t] =
                Done([Fresh("bark_get_entropy_level", NULL, NULL, 0)
                        EXCEPT !.level = ToULong(current_entropy)], 0)]
    /\ UNCHANGED <<globals, nproc>>

\* -------------------------------------------------- bark.h accessors

\* static inline struct bark_task_security *bark_task(struct task_struct *task)
\* As written it returns NULL ("Would return task's security blob in real
\* implementation"); with the blob attached (bark_blob_sizes registers it) it
\* returns the task's record.  blobs tells which build runs.
bark_task(task) == IF blobs THEN task ELSE NULL

\* static inline struct bark_file_security *bark_file(struct file *file)
bark_file(file) == IF blobs THEN file ELSE NULL

\* -------------------------------------------------- bark_signature.c

\* A verification that answers Valid the first time it runs for a file and
\* Invalid every time after.
ExternalVerifyOnceValid(file) ==
    IF resolved[file] = BARK_SIG_UNKNOWN THEN BARK_SIG_VALID ELSE BARK_SIG_INVALID

\* The verification placeholder of bark_verify_signature:
\* *state = BARK_SIG_VALID
ExternalVerify(file) == BARK_SIG_VALID

\* if (fsec && fsec->sig_state != BARK_SIG_UNKNOWN)
FileCacheHit(s) == s # BARK_SIG_UNKNOWN

\* if (tsec && tsec->sig_state == BARK_SIG_VALID)
TaskCacheHit(s) == s = BARK_SIG_VALID

\* -------------------------------- returns, up to the next shared access

\* bark_task_alloc_hook after bark_authorize_task returned r.ret; a direct
\* caller of bark_authorize_task gets r.ret.
AfterAuthorizeTask(r) ==
    IF r.op = "bark_task_alloc_hook"
    THEN [r EXCEPT !.pc = IF r.ret # 0 THEN "ta_deny" ELSE "ta_allow"]
    ELSE Done(r, r.ret)

\* bark_authorize_task after bark_verify_task_signature returned r.ret
AuthorizeTail(r) ==
    IF r.ret # 0
    THEN AfterAuthorizeTask(
            [r EXCEPT !.result.sig_state = BARK_SIG_INVALID,
                      !.result.authorized = FALSE,
                      !.result.reason = REASON_SIGNATURE])
    ELSE AfterAuthorizeTask(
            [r EXCEPT !.result.sig_state = BARK_SIG_VALID,
                      !.result.authorized = TRUE,
                      !.result.reason = NULL])

\* The caller of bark_verify_task_signature after it returned r.ret:
\* bark_task_fix_setuid_hook, or bark_authorize_task.
AfterVerifyTask(r) ==
    IF r.op = "bark_task_fix_setuid_hook"
    THEN Done(r, IF r.ret # 0 THEN BARK_ERR_NOT_AUTHORIZED ELSE 0)
    ELSE AuthorizeTail(r)

\* The caller of bark_verify_signature after it returned r.ret with *state =
\* r.state: bark_bprm_check_hook, bark_authorize_file_exec, or
\* bark_verify_task_signature.
AfterVerifySignature(r) ==
    CASE r.op = "bark_bprm_check_hook" ->
            IF r.ret # 0 \/ r.state # BARK_SIG_VALID
            THEN [r EXCEPT !.pc = "bp_fail"]
            ELSE Done(r, 0)
      [] r.op = "bark_authorize_file_exec" ->
            IF r.ret # 0 THEN Done(r, r.ret)
            ELSE IF r.state # BARK_SIG_VALID THEN Done(r, -EACCES)
            ELSE Done(r, 0)
      [] OTHER ->
            IF r.ret # 0 \/ r.state # BARK_SIG_VALID
            THEN AfterVerifyTask([r EXCEPT !.ret = -EACCES])
            ELSE IF bark_task(r.task) # NULL
                 THEN [r EXCEPT !.pc = "vt_store"]
                 ELSE AfterVerifyTask([r EXCEPT !.ret = 0])

\* bark_verify_signature from its entry to the load of fsec->sig_state
VerifySignatureEntry(r) ==
    IF r.file = NULL
    THEN AfterVerifySignature([r EXCEPT !.ret = -EINVAL])
    ELSE LET q == [r EXCEPT !.ev.known_f = resolved[r.file]] IN
         IF bark_file(q.file) = NULL
         THEN [q EXCEPT !.pc = "vs_enforce"]
         ELSE LET s == fsec[bark_file(q.file)] IN
              IF FileCacheHit(s)
              THEN AfterVerifySignature(
                     [q EXCEPT !.state = s, !.ev.seen_f = s,
                               !.ret = IF s = BARK_SIG_VALID THEN 0 ELSE -EACCES])
              ELSE [q EXCEPT !.pc = "vs_enforce", !.ev.seen_f = s]

\* bark_verify_task_signature from its entry to the load of tsec->sig_state
VerifyTaskEntry(r) ==
    LET q == [r EXCEPT !.ev.vtask = @ + 1] IN
    IF q.task = NULL
    THEN AfterVerifyTask([q EXCEPT !.ret = -EINVAL])
    ELSE IF bark_task(q.task) = NULL
    THEN [q EXCEPT !.pc = "vt_exe"]
    ELSE LET s == tsec[bark_task(q.task)] IN
         IF TaskCacheHit(s)
         THEN AfterVerifyTask([q EXCEPT !.ret = 0, !.ev.seen_t = s])
         ELSE [q EXCEPT !.pc = "vt_exe", !.ev.seen_t = s]

\* bark_authorize_task from its entry to the load of current_entropy;
\* has_result tells whether the result pointer is non-NULL.
AuthorizeTaskEntry(r, has_result) ==
    IF r.task = NULL \/ ~has_result
    THEN AfterAuthorizeTask([r EXCEPT !.ret = -EINVAL])
    ELSE [r EXCEPT !.pc = "at_level", !.result = ZeroResult]

\* ------------------------------------------- steps inside an entry point

\* level = bark_get_entropy_level() in bark_check_entropy_ceiling
CheckLevel(t) ==
    /\ th[t].pc = "cc_level"
    /\ th' = [th EXCEPT ![t].pc = "cc_cmp", ![t].level = ToULong(current_entropy)]
    /\ UNCHANGED <<globals, nproc>>

\* if (level > bark_max_entropy) in bark_check_entropy_ceiling; on 0 the hook
\* goes on to bark_authorize_task(task, &result).  The local level is dead
\* after the comparison.
CheckCompare(t) ==
    /\ th[t].pc = "cc_cmp"
    /\ th' = [th EXCEPT ![t] =
                LET q == [@ EXCEPT !.level = 0] IN
                IF CeilingExceeded(@.level, bark_max_entropy)
                THEN [q EXCEPT !.pc = "cc_inc", !.ev.over = 1]
                ELSE IF @.op = "bark_task_alloc_hook"
                     THEN AuthorizeTaskEntry(q, TRUE)
                     ELSE Done(q, 0)]
    /\ UNCHANGED <<globals, nproc>>

\* atomic64_inc(&bark_statistics.entropy_blocks); return -EPERM; in
\* bark_check_entropy_ceiling
CheckBlock(t) ==
    /\ th[t].pc = "cc_inc"
    /\ bark_statistics' = atomic64_inc("entropy_blocks")
    /\ th' = [th EXCEPT ![t] =
                IF @.op = "bark_task_alloc_hook"
                THEN [Counted(@, "entropy_blocks") EXCEPT !.pc = "ta_block"]
                ELSE Done(Counted(@, "entropy_blocks"), -EPERM)]
    /\ UNCHANGED <<current_entropy, bark_enforce, bark_max_entropy, tsec, fsec,
                   exe, blobs, resolved, nproc>>

\* A hook whose ceiling branch lacks its return and falls through to
\* bark_authorize_task(task, &result).
TaskAllocBlockFallThrough(t) ==
    /\ th[t].pc = "ta_block"
    /\ bark_statistics' = atomic64_inc("entropy_blocks")
    /\ th' = [th EXCEPT ![t] =
                AuthorizeTaskEntry(Counted(@, "entropy_blocks"), TRUE)]
    /\ UNCHANGED <<current_entropy, bark_enforce, bark_max_entropy, tsec, fsec,
                   exe, blobs, resolved, nproc>>

\* bark_task_alloc_hook: bark_log_entropy_exceeded(bark_get_entropy_level(),
\* bark_max_entropy) changes nothing; atomic64_inc(&bark_statistics.
\* entropy_blocks); return BARK_ERR_ENTROPY_EXCEEDED
TaskAllocBlock(t) ==
    /\ th[t].pc = "ta_block"
    /\ bark_statistics' = atomic64_inc("entropy_blocks")
    /\ th' = [th EXCEPT ![t] =
                Done(Counted(@, "entropy_blocks"), BARK_ERR_ENTROPY_EXCEEDED)]
    /\ UNCHANGED <<current_entropy, bark_enforce, bark_max_entropy, tsec, fsec,
                   exe, blobs, resolved, nproc>>

\* result->entropy_level = bark_get_entropy_level() in bark_authorize_task
AuthorizeLevel(t) ==
    /\ th[t].pc = "at_level"
    /\ th' = [th EXCEPT ![t].pc = "at_cmp",
                        ![t].result.entropy_level = ToULong(current_entropy)]
    /\ UNCHANGED <<globals, nproc>>

\* if (result->entropy_level > bark_max_entropy) in bark_authorize_task; else
\* on to bark_verify_task_signature(task)
AuthorizeCompare(t) ==
    /\ th[t].pc = "at_cmp"
    /\ th' = [th EXCEPT ![t] =
                IF CeilingExceeded(@.result.entropy_level, bark_max_entropy)
                THEN AfterAuthorizeTask(
                        [@ EXCEPT !.result.authorized = FALSE,
                                  !.result.reason = REASON_ENTROPY,
                                  !.ret = -EPERM])
                ELSE [@ EXCEPT !.pc = "vt_cache"]]
    /\ UNCHANGED <<globals, nproc>>

\* tsec = bark_task(task); the cached-state check of bark_verify_task_signature
VerifyTaskCache(t) ==
    /\ th[t].pc = "vt_cache"
    /\ th' = [th EXCEPT ![t] = VerifyTaskEntry(@)]
    /\ UNCHANGED <<globals, nproc>>

\* A bark_verify_task_signature that caches the failure when the task has no
\* executable: tsec->sig_state = BARK_SIG_INVALID before return -ENOENT.
VerifyTaskExeCachesFailure(t) ==
    /\ th[t].pc = "vt_exe"
    /\ tsec' = IF exe[th[t].task] = NULL /\ bark_task(th[t].task) # NULL
               THEN [tsec EXCEPT ![bark_task(th[t].task)] = BARK_SIG_INVALID]
               ELSE tsec
    /\ th' = [th EXCEPT ![t] =
                IF exe[th[t].task] = NULL
                THEN AfterVerifyTask([@ EXCEPT !.ret = -ENOENT])
                ELSE [@ EXCEPT !.file = exe[th[t].task], !.pc = "vs_cache"]]
    /\ UNCHANGED <<current_entropy, bark_enforce, bark_max_entropy,
                   bark_statistics, fsec, exe, blobs, resolved, nproc>>

\* A bark_verify_task_signature that reports a missing executable like a bad
\* signature: return -EACCES.
VerifyTaskExeAsInvalid(t) ==
    /\ th[t].pc = "vt_exe"
    /\ th' = [th EXCEPT ![t] =
                IF exe[th[t].task] = NULL
                THEN AfterVerifyTask([@ EXCEPT !.ret = -EACCES])
                ELSE [@ EXCEPT !.file = exe[th[t].task], !.pc = "vs_cache"]]
    /\ UNCHANGED <<globals, nproc>>

\* exe_file = get_task_exe_file(task) in bark_verify_task_signature; with a
\* file, on to bark_verify_signature(exe_file, &state)
VerifyTaskExe(t) ==
    /\ th[t].pc = "vt_exe"
    /\ th' = [th EXCEPT ![t] =
                IF exe[th[t].task] = NULL
                THEN AfterVerifyTask([@ EXCEPT !.ret = -ENOENT])
                ELSE [@ EXCEPT !.file = exe[th[t].task], !.pc = "vs_cache"]]
    /\ UNCHANGED <<globals, nproc>>

\* fsec = bark_file(file); the already-verified check of bark_verify_signature
VerifySignatureCache(t) ==
    /\ th[t].pc = "vs_cache"
    /\ th' = [th EXCEPT ![t] = VerifySignatureEntry(@)]
    /\ UNCHANGED <<globals, nproc>>

\* if (!bark_enforce) { *state = BARK_SIG_VALID; return 0; }
VerifySignatureEnforce(t) ==
    /\ th[t].pc = "vs_enforce"
    /\ th' = [th EXCEPT ![t] =
                IF bark_enforce = 0
                THEN AfterVerifySignature(
                        [@ EXCEPT !.state = BARK_SIG_VALID, !.ret = 0])
                ELSE [@ EXCEPT !.pc = "vs_verify"]]
    /\ UNCHANGED <<globals, nproc>>

\* *state = BARK_SIG_VALID; if (fsec) fsec->sig_state = *state; return 0;
VerifySignatureStore(t) ==
    /\ th[t].pc = "vs_verify"
    /\ LET s == ExternalVerify(th[t].file) IN
        /\ fsec' = IF bark_file(th[t].file) # NULL
                   THEN [fsec EXCEPT ![bark_file(th[t].file)] = s]
                   ELSE fsec
        /\ th' = [th EXCEPT ![t] =
                    AfterVerifySignature(
                        [@ EXCEPT !.state = s, !.ret = 0, !.ev.vcalls = @ + 1])]
        /\ resolved' = [resolved EXCEPT ![th[t].file] = s]
    /\ UNCHANGED <<current_entropy, bark_enforce, bark_max_entropy,
                   bark_statistics, tsec, exe, blobs, nproc>>

\* if (tsec) tsec->sig_state = state; return 0; in bark_verify_task_signature
VerifyTaskStore(t) ==
    /\ th[t].pc = "vt_store"
    /\ tsec' = [tsec EXCEPT ![bark_task(th[t].task)] = th[t].state]
    /\ th' = [th EXCEPT ![t] = AfterVerifyTask([@ EXCEPT !.ret = 0])]
    /\ UNCHANGED <<current_entropy, bark_enforce, bark_max_entropy,
                   bark_statistics, fsec, exe, blobs, resolved, nproc>>

\* bark_task_alloc_hook: bark_log_violation(task, result.reason);
\* atomic64_inc(&bark_statistics.denials); return BARK_ERR_NOT_AUTHORIZED
TaskAllocDeny(t) ==
    /\ th[t].pc = "ta_deny"
    /\ bark_statistics' = atomic64_inc("denials")
    /\ th' = [th EXCEPT ![t] = Done(Counted(@, "denials"), BARK_ERR_NOT_AUTHORIZED)]
    /\ UNCHANGED <<current_entropy, bark_enforce, bark_max_entropy, tsec, fsec,
                   exe, blobs, resolved, nproc>>

\* A task_alloc hook that also records the process creation in the entropy
\* counter when it authorizes: atomic_long_add(10, &current_entropy).
TaskAllocAllowRecords(t) ==
    /\ th[t].pc = "ta_allow"
    /\ bark_statistics' = atomic64_inc("authorizations")
    /\ current_entropy' = current_entropy + 10
    /\ th' = [th EXCEPT ![t] = Done(Counted(@, "authorizations"), 0)]
    /\ UNCHANGED <<bark_enforce, bark_max_entropy, tsec, fsec,
                   exe, blobs, resolved, nproc>>

\* bark_task_alloc_hook: bark_log_authorization(task, &result);
\* atomic64_inc(&bark_statistics.authorizations); return 0
TaskAllocAllow(t) ==
    /\ th[t].pc = "ta_allow"
    /\ bark_statistics' = atomic64_inc("authorizations")
    /\ th' = [th EXCEPT ![t] = Done(Counted(@, "authorizations"), 0)]
    /\ UNCHANGED <<current_entropy, bark_enforce, bark_max_entropy, tsec, fsec,
                   exe, blobs, resolved, nproc>>

\* bark_bprm_check_hook: atomic64_inc(&bark_statistics.signature_failures);
\* return BARK_ERR_SIGNATURE_INVALID
BprmFail(t) ==
    /\ th[t].pc = "bp_fail"
    /\ bark_statistics' = atomic64_inc("signature_failures")
    /\ th' = [th EXCEPT ![t] =
                Done(Counted(@, "signature_failures"), BARK_ERR_SIGNATURE_INVALID)]
    /\ UNCHANGED <<current_entropy, bark_enforce, bark_max_entropy, tsec, fsec,
                   exe, blobs, resolved, nproc>>

\* The caller takes the entry point's return value.
Return(t) ==
    /\ Returned(t)
    /\ th' = [th EXCEPT ![t] = NoCall]
    /\ UNCHANGED <<globals, nproc>>

\* ------------------------------------------------------- entry points

\* A task_alloc hook without the if (!bark_enforce) return 0; fast path.
bark_task_alloc_hook_always(t, task) ==
    /\ Idle(t)
    /\ th' = [th EXCEPT ![t] =
                [Fresh("bark_task_alloc_hook", task, NULL, 0)
                    EXCEPT !.pc = "cc_level"]]
    /\ UNCHANGED <<globals, nproc>>

\* static int bark_task_alloc_hook(struct task_struct *task, unsigned long
\* clone_flags): if (!bark_enforce) return 0; then the ceiling check
bark_task_alloc_hook(t, task) ==
    /\ Idle(t)
    /\ th' = [th EXCEPT ![t] =
                IF bark_enforce = 0
                THEN Done(Fresh("bark_task_alloc_hook", task, NULL, 0), 0)
                ELSE [Fresh("bark_task_alloc_hook", task, NULL, 0)
                        EXCEPT !.pc = "cc_level"]]
    /\ UNCHANGED <<globals, nproc>>

\* static void bark_task_free_hook(struct task_struct *task):
\* if (tsec) memset(tsec, 0, sizeof(*tsec))
bark_task_free_hook(t, task) ==
    /\ Idle(t)
    /\ tsec' = IF bark_task(task) # NULL
               THEN [tsec EXCEPT ![bark_task(task)] = 0]
               ELSE tsec
    /\ th' = [th EXCEPT ![t] = NoCall]
    /\ UNCHANGED <<current_entropy, bark_enforce, bark_max_entropy,
                   bark_statistics, fsec, exe, blobs, resolved, nproc>>

\* A bprm_check hook that consults the entropy ceiling instead of the
\* signature.
bark_bprm_check_hook_ceiling(t, file) ==
    /\ Idle(t)
    /\ th' = [th EXCEPT ![t] =
                IF bark_enforce = 0
                THEN Done(Fresh("bark_bprm_check_hook", NULL, file, 0), 0)
                ELSE [Fresh("bark_bprm_check_hook", NULL, file, 0)
                        EXCEPT !.pc = "cc_level"]]
    /\ UNCHANGED <<globals, nproc>>

\* static int bark_bprm_check_hook(struct linux_binprm *bprm), file = bprm->file
bark_bprm_check_hook(t, file) ==
    /\ Idle(t)
    /\ th' = [th EXCEPT ![t] =
                IF bark_enforce = 0
                THEN Done(Fresh("bark_bprm_check_hook", NULL, file, 0), 0)
                ELSE [Fresh("bark_bprm_check_hook", NULL, file, 0)
                        EXCEPT !.pc = "vs_cache"]]
    /\ UNCHANGED <<globals, nproc>>

\* static int bark_file_permission_hook(struct file *file, int mask)
bark_file_permission_hook(t, file) ==
    /\ Idle(t)
    /\ th' = [th EXCEPT ![t] = Done(Fresh("bark_file_permission_hook", NULL, file, 0), 0)]
    /\ UNCHANGED <<globals, nproc>>

\* A fix_setuid hook that consults the entropy ceiling instead of the task's
\* signature.
bark_task_fix_setuid_hook_ceiling(t, task) ==
    /\ Idle(t)
    /\ th' = [th EXCEPT ![t] =
                IF bark_enforce = 0
                THEN Done(Fresh("bark_task_fix_setuid_hook", task, NULL, 0), 0)
                ELSE [Fresh("bark_task_fix_setuid_hook", task, NULL, 0)
                        EXCEPT !.pc = "cc_level"]]
    /\ UNCHANGED <<globals, nproc>>

\* static int bark_task_fix_setuid_hook(struct cred *new, const struct cred
\* *old, int flags), task = current
bark_task_fix_setuid_hook(t, task) ==
    /\ Idle(t)
    /\ th' = [th EXCEPT ![t] =
                IF bark_enforce = 0
                THEN Done(Fresh("bark_task_fix_setuid_hook", task, NULL, 0), 0)
                ELSE [Fresh("bark_task_fix_setuid_hook", task, NULL, 0)
                        EXCEPT !.pc = "vt_cache"]]
    /\ UNCHANGED <<globals, nproc>>

\* int bark_authorize_task(struct task_struct *task, struct bark_auth_result
\* *result), called on its own
bark_authorize_task(t, task, has_result) ==
    /\ Idle(t)
    /\ th' = [th EXCEPT ![t] =
                AuthorizeTaskEntry(
                    Fresh("bark_authorize_task", task, NULL,
                          IF has_result THEN 1 ELSE 0),
                    has_result)]
    /\ UNCHANGED <<globals, nproc>>

\* int bark_authorize_file_exec(struct file *file)
bark_authorize_file_exec(t, file) ==
    /\ Idle(t)
    /\ th' = [th EXCEPT ![t] =
                IF file = NULL
                THEN Done(Fresh("bark_authorize_file_exec", NULL, file, 0), -EINVAL)
                ELSE VerifySignatureEntry(
                        Fresh("bark_authorize_file_exec", NULL, file, 0))]
    /\ UNCHANGED <<globals, nproc>>

\* int bark_check_entropy_ceiling(void), called on its own
bark_check_entropy_ceiling(t) ==
    /\ Idle(t)
    /\ th' = [th EXCEPT ![t] =
                [Fresh("bark_check_entropy_ceiling", NULL, NULL, 0)
                    EXCEPT !.pc = "cc_cmp", !.level = ToULong(current_entropy)]]
    /\ UNCHANGED <<globals, nproc>>

\* enforce_store: if (kstrtoint(buf, 10, &val) == 0) bark_enforce = val ? 1 : 0
enforce_store(t, val) ==
    /\ Idle(t)
    /\ bark_enforce' = IF val # 0 THEN 1 ELSE 0
    /\ th' = [th EXCEPT ![t] = NoCall]
    /\ UNCHANGED <<current_entropy, bark_max_entropy, bark_statistics, tsec,
                   fsec, exe, blobs, resolved, nproc>>

\* entropy_ceiling_store: if (kstrtoul(buf, 10, &val) == 0) bark_max_entropy = val
entropy_ceiling_store(t, val) ==
    /\ Idle(t)
    /\ bark_max_entropy' = val
    /\ th' = [th EXCEPT ![t] = NoCall]
    /\ UNCHANGED <<current_entropy, bark_enforce, bark_statistics, tsec, fsec,
                   exe, blobs, resolved, nproc>>

\* ------------------------------------------------ the specifications

\* The entropy governor alone: any thread updates, classifies or resets, and
\* the administrator may set the ceiling to 100.
Update(t, cap) ==
    \E d \in 0 .. MaxDelta :
        current_entropy + d <= cap /\ bark_update_entropy(t, d)

EntropyEvent(t, cap) ==
    \E e \in EventTypes :
        current_entropy + EventDelta(e) <= cap /\ bark_entropy_event(t, e)

NextEntropy ==
    \E t \in Threads :
        \/ Update(t, MaxRunEntropy)
        \/ EntropyEvent(t, MaxRunEntropy)
        \/ UpdateRead(t)
        \/ UpdateDec(t)
        \/ bark_reset_entropy(t)
        \/ entropy_ceiling_store(t, 100)

\* The whole module: gated events while the statistics have room.
StatRoom == StatTotal < MaxStat

TaskAlloc(t) ==
    \E k \in Tasks \cup {NULL} : StatRoom /\ bark_task_alloc_hook(t, k)

TaskFree(t) == \E k \in Tasks : bark_task_free_hook(t, k)

BprmCheck(t) ==
    \E f \in Files \cup {NULL} : StatRoom /\ bark_bprm_check_hook(t, f)

FilePermission(t) == \E f \in Files : bark_file_permission_hook(t, f)

FixSetuid(t) == \E k \in Tasks : bark_task_fix_setuid_hook(t, k)

AuthorizeTask(t) ==
    \E k \in Tasks \cup {NULL}, h \in BOOLEAN : bark_authorize_task(t, k, h)

AuthorizeFileExec(t) ==
    \E f \in Files \cup {NULL} : bark_authorize_file_exec(t, f)

CheckCeiling(t) == StatRoom /\ bark_check_entropy_ceiling(t)

EnforceStore(t) == \E v \in 0 .. 2 : enforce_store(t, v)

CeilingStore(t) == \E v \in 0 .. MaxCeiling : entropy_ceiling_store(t, v)

\* The host gives task a new executable (execve) or drops it: what
\* get_task_exe_file(task) yields from then on.
HostExec(task, file) ==
    /\ exe[task] # file
    /\ exe' = [exe EXCEPT ![task] = file]
    /\ UNCHANGED <<current_entropy, bark_enforce, bark_max_entropy,
                   bark_statistics, tsec, fsec, blobs, th, resolved, nproc>>

Exec == \E k \in Tasks, f \in Files \cup {NULL} : HostExec(k, f)

\* The entropy governor's writers and the sysfs stores, as thread t runs them.
Governor(t) ==
    \/ Update(t, MaxEntropy)
    \/ UpdateRead(t)
    \/ UpdateDec(t)
    \/ bark_reset_entropy(t)
    \/ EnforceStore(t)
    \/ CeilingStore(t)
    \/ TaskFree(t)

\* The gated events and the authorization operations, as thread t runs them.
Gate(t) ==
    \/ bark_get_entropy_level(t)
    \/ TaskAlloc(t)
    \/ BprmCheck(t)
    \/ FilePermission(t)
    \/ FixSetuid(t)
    \/ AuthorizeTask(t)
    \/ AuthorizeFileExec(t)
    \/ CheckCeiling(t)
    \/ CheckLevel(t)
    \/ CheckCompare(t)
    \/ CheckBlock(t)
    \/ TaskAllocBlock(t)
    \/ AuthorizeLevel(t)
    \/ AuthorizeCompare(t)
    \/ VerifyTaskCache(t)
    \/ VerifyTaskExe(t)
    \/ VerifySignatureCache(t)
    \/ VerifySignatureEnforce(t)
    \/ VerifySignatureStore(t)
    \/ VerifyTaskStore(t)
    \/ TaskAllocDeny(t)
    \/ TaskAllocAllow(t)
    \/ BprmFail(t)
    \/ Return(t)

\* One CPU handles the gated events while the other runs the governor's
\* writers and the stores, each a step at a time.
Next == Gate("cpu0") \/ Governor("cpu1") \/ Exec

Spec == Init /\ [][Next]_vars

InitEntropy ==
    /\ current_entropy = 0
    /\ bark_enforce = BARK_DEFAULT_ENFORCE
    /\ bark_max_entropy = BARK_DEFAULT_MAX_ENTROPY
    /\ bark_statistics = NoIncs
    /\ tsec = [k \in Tasks |-> BARK_SIG_UNKNOWN]
    /\ fsec = [f \in Files |-> BARK_SIG_UNKNOWN]
    /\ exe = [k \in Tasks |-> NULL]
    /\ blobs = FALSE
    /\ th = [t \in Threads |-> NoCall]
    /\ resolved = [f \in Files |-> BARK_SIG_UNKNOWN]
    /\ nproc = 0

SpecEntropy == InitEntropy /\ [][NextEntropy]_vars

\* Nothing but bark_update_entropy calls, from any thread.
NextUpdate ==
    \E t \in Threads :
        \/ Update(t, MaxRunEntropy)
        \/ UpdateRead(t)
        \/ UpdateDec(t)

SpecUpdate == InitEntropy /\ [][NextUpdate]_vars

\* The hooks and bark_authorize_file_exec on every CPU at once, with the
\* entropy level and the parameters left as the module starts them (the
\* level is then never above the ceiling).
Hooks(t) ==
    \/ TaskAlloc(t)
    \/ BprmCheck(t)
    \/ FixSetuid(t)
    \/ AuthorizeFileExec(t)
    \/ CheckLevel(t)
    \/ CheckCompare(t)
    \/ AuthorizeLevel(t)
    \/ AuthorizeCompare(t)
    \/ VerifyTaskCache(t)
    \/ VerifyTaskExe(t)
    \/ VerifySignatureCache(t)
    \/ VerifySignatureEnforce(t)
    \/ VerifySignatureStore(t)
    \/ VerifyTaskStore(t)
    \/ TaskAllocDeny(t)
    \/ TaskAllocAllow(t)
    \/ BprmFail(t)
    \/ Return(t)

NextHooks == \E t \in Threads : Hooks(t)

SpecHooks == Init /\ [][NextHooks]_vars

\* Gated events and authorization operations on one CPU, the stores and
\* bark_task_free_hook on the other, and no caller of bark_update_entropy,
\* bark_entropy_event or bark_reset_entropy (the ceiling branches are then
\* never entered).
Gated(t) ==
    \/ bark_get_entropy_level(t)
    \/ TaskAlloc(t)
    \/ BprmCheck(t)
    \/ FilePermission(t)
    \/ FixSetuid(t)
    \/ AuthorizeTask(t)
    \/ AuthorizeFileExec(t)
    \/ CheckCeiling(t)
    \/ CheckLevel(t)
    \/ CheckCompare(t)
    \/ AuthorizeLevel(t)
    \/ AuthorizeCompare(t)
    \/ VerifyTaskCache(t)
    \/ VerifyTaskExe(t)
    \/ VerifySignatureCache(t)
    \/ VerifySignatureEnforce(t)
    \/ VerifySignatureStore(t)
    \/ VerifyTaskStore(t)
    \/ TaskAllocDeny(t)
    \/ TaskAllocAllow(t)
    \/ BprmFail(t)
    \/ Return(t)

Stores(t) ==
    \/ EnforceStore(t)
    \/ CeilingStore(t)
    \/ TaskFree(t)

NextGated == Gated("cpu0") \/ Stores("cpu1") \/ Exec

SpecGated == Init /\ [][NextGated]_vars

\* bark_update_entropy(0) again and again from one thread, no other writer,
\* starting with the counter at MaxRunEntropy.
InitDecay ==
    /\ current_entropy = MaxRunEntropy
    /\ bark_enforce = BARK_DEFAULT_ENFORCE
    /\ bark_max_entropy = BARK_DEFAULT_MAX_ENTROPY
    /\ bark_statistics = NoIncs
    /\ tsec = [k \in Tasks |-> BARK_SIG_UNKNOWN]
    /\ fsec = [f \in Files |-> BARK_SIG_UNKNOWN]
    /\ exe = [k \in Tasks |-> NULL]
    /\ blobs = FALSE
    /\ th = [t \in Threads |-> NoCall]
    /\ resolved = [f \in Files |-> BARK_SIG_UNKNOWN]
    /\ nproc = -1

NextDecay ==
    \/ bark_update_entropy("cpu0", 0)
    \/ UpdateRead("cpu0")
    \/ UpdateDec("cpu0")

SpecDecay == InitDecay /\ [][NextDecay]_vars

\* ------------------------------------------------------------ properties

HookOps ==
    {"bark_task_alloc_hook", "bark_bprm_check_hook", "bark_task_fix_setuid_hook"}

AuthorizationOps ==
    HookOps \cup {"bark_authorize_task", "bark_authorize_file_exec"}

\* The subject an authorization entry point was called for exists: the task
\* and result pointers, or the file, are not NULL.
HasSubject(r) ==
    CASE r.op \in {"bark_task_alloc_hook", "bark_task_fix_setuid_hook"} ->
            r.task # NULL
      [] r.op = "bark_authorize_task" -> r.task # NULL /\ r.arg = 1
      [] OTHER -> r.file # NULL

EventIncs(r) ==
    r.ev.incs.authorizations + r.ev.incs.denials
    + r.ev.incs.entropy_blocks + r.ev.incs.signature_failures

AllIdle == \A t \in Threads : Idle(t)

\* C1: under concurrent bark_update_entropy calls with non-negative deltas
\* (each an add, a read and a conditional decrement) the entropy counter is
\* never negative, so bark_get_entropy_level never reports a wrapped value.
C1_EntropyNonNegative ==
    /\ current_entropy >= 0
    /\ ToULong(current_entropy) = current_entropy

\* C2: a task_alloc event for a task, entered with enforcement on, whose
\* ceiling check finds level > ceiling returns BARK_ERR_ENTROPY_EXCEEDED and
\* increments entropy_blocks exactly once, authorizations and denials not at
\* all.
C2_CeilingDenyCountsOnce ==
    \A t \in Threads :
        ( /\ Returned(t)
          /\ th[t].op = "bark_task_alloc_hook"
          /\ th[t].task \in Tasks
          /\ th[t].ev.enf = 1
          /\ th[t].ev.over = 1 )
        => /\ th[t].ret = BARK_ERR_ENTROPY_EXCEEDED
           /\ th[t].ev.incs.entropy_blocks = 1
           /\ th[t].ev.incs.authorizations = 0
           /\ th[t].ev.incs.denials = 0

C5_ResolvedIsNotVerifiedAgain ==
    \A t \in Threads :
        ( /\ Returned(t)
          /\ th[t].ev.known_f \in {BARK_SIG_VALID, BARK_SIG_INVALID} )
        => /\ th[t].ev.vcalls = 0
           /\ th[t].state = th[t].ev.known_f

\* C6: a task_alloc event entered with enforcement off returns 0 and
\* increments none of the four statistics counters, whatever the entropy
\* level, the ceiling and the cached states are.
C6_DisabledTaskAllocAllows ==
    \A t \in Threads :
        ( /\ Returned(t)
          /\ th[t].op = "bark_task_alloc_hook"
          /\ th[t].ev.enf = 0 )
        => /\ th[t].ret = 0
           /\ th[t].ev.incs = NoIncs
           /\ th[t].ev.vtask = 0

\* A task_alloc event entered with enforcement off has returned while the
\* entropy level is above the ceiling.
C6_Witness ==
    \E t \in Threads :
        /\ Returned(t)
        /\ th[t].op = "bark_task_alloc_hook"
        /\ th[t].task \in Tasks
        /\ th[t].ev.enf = 0
        /\ bark_enforce = 0
        /\ CeilingExceeded(ToULong(current_entropy), bark_max_entropy)
        /\ th[t].ret = 0

\* C7: with the enforcement flag false, each authorization entry point (the
\* three hooks, bark_authorize_task and bark_authorize_file_exec) called for
\* an existing subject returns 0.
C7_DisabledAlwaysAllows ==
    \A t \in Threads :
        ( /\ Returned(t)
          /\ th[t].op \in AuthorizationOps
          /\ HasSubject(th[t])
          /\ th[t].ev.enf = 0
          /\ bark_enforce = 0 )
        => th[t].ret = 0

\* C8: a hook event for an existing subject, entered with enforcement on,
\* makes exactly one increment to the statistics counters before it returns
\* its verdict.
C8_OneIncrementPerVerdict ==
    \A t \in Threads :
        ( /\ Returned(t)
          /\ th[t].op \in HookOps
          /\ HasSubject(th[t])
          /\ th[t].ev.enf = 1 )
        => EventIncs(th[t]) = 1

\* C9: a task_alloc event denied because the entropy level exceeds the
\* ceiling (by the hook's ceiling check, or by the check at the head of
\* bark_authorize_task) has entered neither bark_verify_task_signature nor
\* the verification.
C9_EntropyBeforeSignature ==
    \A t \in Threads :
        ( /\ Returned(t)
          /\ th[t].op = "bark_task_alloc_hook"
          /\ \/ th[t].ev.over = 1
             \/ th[t].result.reason = REASON_ENTROPY )
        => /\ th[t].ev.vtask = 0
           /\ th[t].ev.vcalls = 0
           /\ th[t].ret # 0

\* A task_alloc event for a task that has an executable was denied by the
\* ceiling check.
C9_Witness ==
    \E t \in Threads :
        /\ Returned(t)
        /\ th[t].op = "bark_task_alloc_hook"
        /\ th[t].task \in Tasks
        /\ exe[th[t].task] # NULL
        /\ th[t].ev.over = 1
        /\ th[t].ret = BARK_ERR_ENTROPY_EXCEEDED

\* C10: with the ceiling at 100, once nine process-creation events have
\* completed as the only writers of a counter that started at 0, the counter
\* is 81.
C10_NineProcessCreations ==
    (bark_max_entropy = 100 /\ nproc = 9 /\ AllIdle) => current_entropy = 81

\* Nine process-creation events have completed under ceiling 100.
C10_Witness ==
    /\ bark_max_entropy = 100
    /\ nproc = 9
    /\ AllIdle
    /\ current_entropy = 81

\* C11: a task's verification (bark_verify_task_signature) that reaches
\* bark_verify_signature for an executable an earlier call already resolved
\* to Valid succeeds without running the verification again, so a file
\* verified once costs one verification however many tasks execute it.
C11_OneVerificationPerFile ==
    \A t \in Threads :
        ( /\ Returned(t)
          /\ th[t].ev.vtask = 1
          /\ th[t].ev.known_f = BARK_SIG_VALID )
        => th[t].ev.vcalls = 0

\* The thread has just moved: its record changed and it is not taking a new
\* call or handing back a finished one.
Stepped(t) == th'[t] # th[t] /\ th[t].pc \notin {"idle", "ret"}

\* C13: an authorization entry point called without its subject (a NULL task,
\* result or file; a hook entered with enforcement on) returns -EINVAL, and
\* that event makes no ceiling check, enters no verification and increments
\* no statistics counter.
C13_NullSubjectIsInvalidArgument ==
    \A t \in Threads :
        ( /\ Returned(t)
          /\ th[t].op \in AuthorizationOps
          /\ ~HasSubject(th[t])
          /\ (th[t].op \in HookOps => th[t].ev.enf = 1) )
        => /\ th[t].ret = -EINVAL
           /\ th[t].ev.incs = NoIncs
           /\ th[t].ev.vtask = 0
           /\ th[t].ev.vcalls = 0
           /\ th[t].ev.over = 0

\* C14: when get_task_exe_file yields no file, bark_verify_task_signature
\* fails with -ENOENT, which is not the -EACCES of a bad signature; the step
\* changes no task's and no file's cached state; the caller denies:
\* bark_authorize_task returns -ENOENT with authorized = FALSE, the fix_setuid
\* hook returns BARK_ERR_NOT_AUTHORIZED, the task_alloc hook goes on to its
\* denial.
C14_UnresolvableIsNotCached ==
    [][ \A t \in Threads :
          ( /\ th[t].pc = "vt_exe"
            /\ exe[th[t].task] = NULL
            /\ Stepped(t) )
          => /\ tsec' = tsec
             /\ fsec' = fsec
             /\ -ENOENT # BARK_ERR_NOT_AUTHORIZED
             /\ CASE th[t].op = "bark_authorize_task" ->
                       /\ th'[t].pc = "ret"
                       /\ th'[t].ret = -ENOENT
                       /\ th'[t].result.authorized = FALSE
                  [] th[t].op = "bark_task_fix_setuid_hook" ->
                       /\ th'[t].pc = "ret"
                       /\ th'[t].ret = BARK_ERR_NOT_AUTHORIZED
                  [] OTHER ->
                       /\ th'[t].pc = "ta_deny"
                       /\ th'[t].ret = -ENOENT ]_vars

\* bark_authorize_task failed with -ENOENT for a task whose blob is attached,
\* and the task's cached state is still Unknown.
C14_Witness ==
    \E t \in Threads :
        /\ Returned(t)
        /\ th[t].op = "bark_authorize_task"
        /\ th[t].ret = -ENOENT
        /\ bark_task(th[t].task) # NULL
        /\ th[t].ev.seen_t = BARK_SIG_UNKNOWN
        /\ tsec[th[t].task] = BARK_SIG_UNKNOWN

\* C15: a bprm_check event entered with enforcement on returns 0 with no
\* increment when bark_verify_signature yields Valid, and otherwise returns
\* BARK_ERR_SIGNATURE_INVALID with exactly one increment, of
\* signature_failures; it never reads the entropy level, and none of its steps
\* changes current_entropy.
C15_FileExecIsSignatureOnly ==
    /\ [](\A t \in Threads :
            ( /\ Returned(t)
              /\ th[t].op = "bark_bprm_check_hook"
              /\ th[t].ev.enf = 1 )
            => /\ th[t].ev.over = 0
               /\ th[t].level = 0
               /\ th[t].result = ZeroResult
               /\ IF th[t].file # NULL /\ th[t].state = BARK_SIG_VALID
                  THEN th[t].ret = 0 /\ th[t].ev.incs = NoIncs
                  ELSE /\ th[t].ret = BARK_ERR_SIGNATURE_INVALID
                       /\ th[t].ev.incs =
                            [NoIncs EXCEPT !.signature_failures = 1])
    /\ [][ \A t \in Threads :
             (th[t].op = "bark_bprm_check_hook" /\ Stepped(t))
             => current_entropy' = current_entropy ]_vars

\* A bprm_check event entered with enforcement on allowed a file while the
\* entropy level is above the ceiling.
C15_Witness ==
    \E t \in Threads :
        /\ Returned(t)
        /\ th[t].op = "bark_bprm_check_hook"
        /\ th[t].ev.enf = 1
        /\ th[t].file \in Files
        /\ th[t].ret = 0
        /\ CeilingExceeded(ToULong(current_entropy), bark_max_entropy)

\* C16: a fix_setuid event entered with enforcement on returns 0 exactly when
\* the task's verification succeeded (the cached state was Valid, or the
\* executable's state came back Valid) and BARK_ERR_NOT_AUTHORIZED otherwise;
\* it never reads the entropy level, increments no statistics counter, and
\* none of its steps changes current_entropy.
C16_CredentialChangeIsSignatureOnly ==
    /\ [](\A t \in Threads :
            ( /\ Returned(t)
              /\ th[t].op = "bark_task_fix_setuid_hook"
              /\ th[t].ev.enf = 1 )
            => /\ th[t].ev.over = 0
               /\ th[t].level = 0
               /\ th[t].result = ZeroResult
               /\ th[t].ev.incs = NoIncs
               /\ th[t].ev.vtask = 1
               /\ IF \/ th[t].ev.seen_t = BARK_SIG_VALID
                     \/ th[t].state = BARK_SIG_VALID
                  THEN th[t].ret = 0
                  ELSE th[t].ret = BARK_ERR_NOT_AUTHORIZED)
    /\ [][ \A t \in Threads :
             (th[t].op = "bark_task_fix_setuid_hook" /\ Stepped(t))
             => current_entropy' = current_entropy ]_vars

\* A fix_setuid event entered with enforcement on was denied although the
\* entropy level is within the ceiling, and the statistics are all zero.
C16_Witness ==
    \E t \in Threads :
        /\ Returned(t)
        /\ th[t].op = "bark_task_fix_setuid_hook"
        /\ th[t].ev.enf = 1
        /\ th[t].ret = BARK_ERR_NOT_AUTHORIZED
        /\ StatTotal = 0

\* C17: bark_check_entropy_ceiling called on its own increments no
\* statistics counter.
C17_CeilingCheckCountsNothing ==
    \A t \in Threads :
        ( /\ Returned(t)
          /\ th[t].op = "bark_check_entropy_ceiling" )
        => th[t].ev.incs = NoIncs

\* The increments of counter n made by the events the threads of thr hold.
Counts(thr, n) ==
    LET sum[S \in SUBSET Threads] ==
            IF S = {} THEN 0
            ELSE LET t == CHOOSE u \in S : TRUE
                 IN thr[t].ev.incs[n] + sum[S \ {t}]
    IN sum[Threads]

\* A caller takes a finished event's record in this step.
Taken == \E t \in Threads : th[t].pc = "ret" /\ th'[t].pc = "idle"

SigStates == {BARK_SIG_VALID, BARK_SIG_INVALID, BARK_SIG_MISSING}

C19_NoLostIncrement ==
    /\ [](\A n \in StatNames : bark_statistics[n] >= Counts(th, n))
    /\ [][ \A n \in StatNames :
             /\ bark_statistics'[n] >= bark_statistics[n]
             /\ ~Taken =>
                  bark_statistics'[n] - bark_statistics[n]
                    = Counts(th', n) - Counts(th, n) ]_vars

\* Every thread holds an allowed task_alloc event that ran concurrently with
\* the others', and authorizations equals the number of threads.
C19_Witness ==
    /\ \A t \in Threads :
         /\ Returned(t)
         /\ th[t].op = "bark_task_alloc_hook"
         /\ th[t].ev.enf = 1
         /\ th[t].ret = 0
         /\ th[t].ev.incs.authorizations = 1
    /\ bark_statistics.authorizations = Cardinality(Threads)

\* C20: with bark_update_entropy(0) calls from one thread as the only writer,
\* the add leaves the counter as it is, a call that finds the counter positive
\* decrements it by exactly 1 and not below 0, and a call that finds it 0
\* returns with it still 0.
C20_DecayByOne ==
    /\ [](current_entropy >= 0)
    /\ [][ \A t \in Threads :
             /\ (Idle(t) /\ th'[t].pc = "ue_read")
                  => current_entropy' = current_entropy
             /\ (th[t].pc = "ue_read" /\ th'[t].pc = "ue_dec")
                  => current_entropy > 0 /\ current_entropy' = current_entropy
             /\ (th[t].pc = "ue_read" /\ th'[t].pc = "idle")
                  => current_entropy = 0 /\ current_entropy' = 0
             /\ (th[t].pc = "ue_dec" /\ th'[t].pc = "idle")
                  => /\ current_entropy' = current_entropy - 1
                     /\ current_entropy' >= 0 ]_vars

\* Calls have brought the counter from MaxRunEntropy down to 0 and a further
\* call is under way.
C20_Witness ==
    /\ MaxRunEntropy > 0
    /\ current_entropy = 0
    /\ th["cpu0"].pc = "ue_read"
    /\ th["cpu0"].op = "bark_update_entropy"

GatedOps == AuthorizationOps \cup {"bark_file_permission_hook"}

\* C21: no step of an authorization entry point (the four hooks,
\* bark_authorize_task, bark_authorize_file_exec) changes current_entropy;
\* so in a run without bark_update_entropy, bark_entropy_event and
\* bark_reset_entropy the counter stays 0, whatever ceiling is stored, and no
\* event finds the ceiling exceeded or counts an entropy block.
C21_GatedEventsLeaveEntropy ==
    /\ [][ \A t \in Threads :
             ( \/ th[t].op \in GatedOps /\ Stepped(t)
               \/ Idle(t) /\ th'[t].op \in GatedOps )
             => current_entropy' = current_entropy ]_vars
    /\ [](/\ current_entropy = 0
          /\ bark_statistics.entropy_blocks = 0
          /\ \A t \in Threads :
               /\ th[t].ev.over = 0
               /\ th[t].result.reason # REASON_ENTROPY
               /\ th[t].ret # BARK_ERR_ENTROPY_EXCEEDED)

\* A task_alloc event entered with enforcement on was authorized and counted
\* under the lowest ceiling, and the counter is still 0.
C21_Witness ==
    \E t \in Threads :
        /\ Returned(t)
        /\ th[t].op = "bark_task_alloc_hook"
        /\ th[t].ev.enf = 1
        /\ th[t].ret = 0
        /\ th[t].ev.incs.authorizations = 1
        /\ bark_max_entropy = 0
        /\ current_entropy = 0

\* C22: a task_alloc event whose result carries the reason "Entropy ceiling
\* exceeded" returns BARK_ERR_ENTROPY_EXCEEDED and is counted in
\* entropy_blocks, not in denials.
C22_CeilingDenialAttributed ==
    \A t \in Threads :
        ( /\ Returned(t)
          /\ th[t].op = "bark_task_alloc_hook"
          /\ th[t].result.reason = REASON_ENTROPY )
        => /\ th[t].ret = BARK_ERR_ENTROPY_EXCEEDED
           /\ th[t].ev.incs.entropy_blocks >= 1
           /\ th[t].ev.incs.denials = 0

\* C23: after bark_authorize_task with a task and a result, authorized holds
\* exactly when it returned 0, sig_state is Valid exactly when authorized,
\* reason is NULL exactly when authorized, and sig_state is Invalid only when
\* bark_verify_signature answered with a state other than Valid.
C23_ResultMatchesReturn ==
    \A t \in Threads :
        ( /\ Returned(t)
          /\ th[t].op = "bark_authorize_task"
          /\ HasSubject(th[t]) )
        => /\ th[t].result.authorized <=> th[t].ret = 0
           /\ th[t].result.sig_state = BARK_SIG_VALID <=> th[t].result.authorized
           /\ th[t].result.reason = NULL <=> th[t].result.authorized
           /\ th[t].result.sig_state = BARK_SIG_INVALID
                => th[t].state \in {BARK_SIG_INVALID, BARK_SIG_MISSING}

=============================================================================
